---- MODULE Spec2Model ----
(***************************************************************************)
(* Model of crates/storage/provider/src/change.rs: the BundleState wrapper *)
(* (receipts, first_block and the revm bundle), its revert_to /            *)
(* detach_lower_part_at / extend algebra, and the write of reverts and of  *)
(* the plain state change to the database tables.                          *)
(*                                                                         *)
(* The revm bundle itself (reth_revm_primitives::db::states) is not part   *)
(* of change.rs; the operators named Bundle* and ExecBlock model it from   *)
(* the specification: a journal with one entry per block holding the prior *)
(* account value, the prior slot values and a wipe flag.                   *)
(***************************************************************************)
EXTENDS Integers, Sequences, FiniteSets, TLC

VARIABLES
    agg,        \* the BundleState (self): [bundle, receipts, first_block]
    hist,       \* per block of agg: the single-block BundleState it was extended with
    db,         \* the database tables
    db0,        \* the database as it was before the range (never changes)
    last,       \* the last call: [op, arg, pre, prehist, ret]
    pc          \* "live" | "flushed" | "panicked"; "store" | "written" for a lone writer

vars == <<agg, hist, db, db0, last, pc>>

----------------------------------------------------------------------------
(* Bounds and sample universes *)

MaxBlocks == 3

Addresses == {1, 2}
Slots == {1, 2}
Values == {0, 1, 2}          \* U256 slot values, 0 is U256::ZERO
Infos == {"i1", "i2"}        \* account records; an Info also names its code hash
NoAccount == "none"          \* Option<Account>::None

None == <<>>
Some(x) == <<x>>

EmptyFn == [x \in {} |-> 0]

RECURSIVE SortedSeq(_)
SortedSeq(S) ==
    IF S = {} THEN <<>>
    ELSE LET m == CHOOSE x \in S : \A y \in S : x <= y
         IN <<m>> \o SortedSeq(S \ {m})

----------------------------------------------------------------------------
(* The revm bundle: state, journal (reverts), contracts *)

EmptyBundle == [state |-> EmptyFn, reverts |-> <<>>, contracts |-> {}]

\* Self::default()
DefaultBundleState == [bundle |-> EmptyBundle, receipts |-> <<>>, first_block |-> 0]

\* BundleState::new
new(bundle, receipts, first_block) ==
    [bundle |-> bundle, receipts |-> receipts, first_block |-> first_block]

len(self) == Len(self.receipts)

first_block(self) == self.first_block

last_block(self) == self.first_block + len(self)

\* Vec::truncate
truncate(v, n) == IF n >= Len(v) THEN v ELSE SubSeq(v, 1, n)

\* slice::split_at(n).1
split_at_tail(v, n) == SubSeq(v, n + 1, Len(v))

\* Undo one journal entry of one address on that address's bundle account.
\* Returns None when the account leaves the bundle state.
AccountRevertApply(acc, rev) ==
    IF rev.fresh THEN None
    ELSE Some([info |-> IF rev.account[1] = "nothing" THEN acc.info
                        ELSE IF rev.account[1] = "delete" THEN NoAccount
                        ELSE rev.account[2],
               original_info |-> acc.original_info,
               storage |-> [s \in (DOMAIN acc.storage) \ rev.freshSlots |->
                               IF s \in DOMAIN rev.storage
                               THEN [acc.storage[s] EXCEPT !.present = rev.storage[s]]
                               ELSE acc.storage[s]],
               destroyed |-> rev.prev_destroyed])

\* Undo the most recent block of the journal.
BundleRevertLatest(b) ==
    LET n == Len(b.reverts)
        entry == b.reverts[n]
        touched == DOMAIN entry
        kept == {a \in DOMAIN b.state :
                    a \notin touched \/ AccountRevertApply(b.state[a], entry[a]) # None}
    IN [b EXCEPT
          !.state = [a \in kept |->
                        IF a \in touched
                        THEN AccountRevertApply(b.state[a], entry[a])[1]
                        ELSE b.state[a]],
          !.reverts = SubSeq(b.reverts, 1, n - 1)]

\* revm BundleState::revert(num_transitions): pops journal entries, most recent
\* first, until num_transitions are undone or the journal is empty.
RECURSIVE BundleRevert(_, _)
BundleRevert(b, num_transitions) ==
    IF num_transitions = 0 \/ b.reverts = <<>> THEN b
    ELSE BundleRevert(BundleRevertLatest(b), num_transitions - 1)

\* revm BundleState::detach_lower_part_reverts: None when nothing or too much
\* is asked for, else the bundle with the leading journal entries dropped.
BundleDetachLowerPartReverts(b, num_of_detachments) ==
    IF num_of_detachments = 0 \/ num_of_detachments > Len(b.reverts) THEN None
    ELSE Some([b EXCEPT !.reverts = split_at_tail(b.reverts, num_of_detachments)])

\* revm BundleAccount::extend: other was built on top of this account.
BundleAccountExtend(this, other) ==
    [info |-> other.info,
     original_info |-> this.original_info,
     storage |-> [s \in (DOMAIN this.storage) \cup (DOMAIN other.storage) |->
                    IF s \in DOMAIN other.storage
                    THEN IF s \in DOMAIN this.storage
                         THEN [this.storage[s] EXCEPT
                                 !.present = other.storage[s].present]
                         ELSE other.storage[s]
                    ELSE this.storage[s]],
     destroyed |-> this.destroyed \/ other.destroyed]

\* revm BundleState::extend
BundleExtend(b, other) ==
    [state |-> [a \in (DOMAIN b.state) \cup (DOMAIN other.state) |->
                  IF a \in DOMAIN other.state
                  THEN IF a \in DOMAIN b.state
                       THEN BundleAccountExtend(b.state[a], other.state[a])
                       ELSE other.state[a]
                  ELSE b.state[a]],
     reverts |-> b.reverts \o other.reverts,
     contracts |-> b.contracts \cup other.contracts]

----------------------------------------------------------------------------
(* The execution engine: one block's diff executed on top of self *)

StoreSlot(store, a, s) ==
    LET es == {e \in store.storage : e[1] = a /\ e[2] = s}
    IN IF es = {} THEN 0 ELSE (CHOOSE e \in es : TRUE)[3]

Known(self, a) == a \in DOMAIN self.bundle.state

KnownSlots(self, a) ==
    IF Known(self, a) THEN DOMAIN self.bundle.state[a].storage ELSE {}

WasDestroyed(self, a) == Known(self, a) /\ self.bundle.state[a].destroyed

\* BundleState::account, falling back to the store
BaseInfo(self, store, a) ==
    IF Known(self, a) THEN self.bundle.state[a].info ELSE store.accounts[a]

\* BundleState::storage, falling back to the store
BaseSlot(self, store, a, s) ==
    IF s \in KnownSlots(self, a) THEN self.bundle.state[a].storage[s].present
    ELSE IF WasDestroyed(self, a) THEN 0
    ELSE StoreSlot(store, a, s)

\* The operations a block may do to one address: set the account record,
\* set one slot, or destroy the account. Each changes something.
ValidOp(self, store, a, op) ==
    \/ /\ op[1] = "info"
       /\ op[2] # BaseInfo(self, store, a)
    \/ /\ op[1] = "slot"
       /\ BaseInfo(self, store, a) # NoAccount
       /\ op[3] # BaseSlot(self, store, a, op[2])
    \/ /\ op[1] = "destroy"
       /\ BaseInfo(self, store, a) # NoAccount

AllOps ==
    {<<"info", i>> : i \in Infos}
        \cup {<<"slot", s, v>> : s \in Slots, v \in Values}
        \cup {<<"destroy">>}

\* The block's bundle account for address a
OpAccount(self, store, a, op) ==
    LET base == BaseInfo(self, store, a)
    IN [info |-> IF op[1] = "info" THEN op[2]
                 ELSE IF op[1] = "destroy" THEN NoAccount
                 ELSE base,
        original_info |-> base,
        storage |->
            IF op[1] = "slot"
            THEN [s \in {op[2]} |->
                     [original |-> BaseSlot(self, store, a, s), present |-> op[3]]]
            ELSE IF op[1] = "destroy"
            THEN [s \in KnownSlots(self, a) |->
                     [original |-> BaseSlot(self, store, a, s), present |-> 0]]
            ELSE EmptyFn,
        destroyed |-> op[1] = "destroy"]

\* The block's journal entry for address a: prior account value, prior slot
\* values, the wipe flag, and what was not known to self before the block.
OpRevert(self, store, a, op) ==
    LET base == BaseInfo(self, store, a)
    IN [account |-> IF op[1] = "slot" THEN <<"nothing">>
                    ELSE IF base = NoAccount THEN <<"delete">>
                    ELSE <<"to", base>>,
        storage |->
            IF op[1] = "slot"
            THEN [s \in {op[2]} |-> BaseSlot(self, store, a, s)]
            ELSE IF op[1] = "destroy"
            THEN [s \in KnownSlots(self, a) |-> BaseSlot(self, store, a, s)]
            ELSE EmptyFn,
        wipe |-> op[1] = "destroy",
        fresh |-> ~Known(self, a),
        freshSlots |-> IF op[1] = "slot" THEN {op[2]} \ KnownSlots(self, a) ELSE {},
        prev_destroyed |-> WasDestroyed(self, a)]

\* the logs of the transaction applying op to address a
LogsOf(a, op) ==
    IF op[1] = "slot" THEN <<<<a, op[2]>>>>
    ELSE IF op[1] = "destroy" THEN <<<<a, 1>>, <<a, 2>>>>
    ELSE <<>>

\* The single-block BundleState of block_number, built on top of self:
\* diff maps each touched address to its operation; one receipt per operation.
ExecBlock(self, store, diff, block_number) ==
    LET touched == DOMAIN diff
        order == SortedSeq(touched)
    IN new([state |-> [a \in touched |-> OpAccount(self, store, a, diff[a])],
            reverts |-> <<[a \in touched |-> OpRevert(self, store, a, diff[a])]>>,
            contracts |-> {diff[a][2] : a \in {x \in touched :
                              diff[x][1] = "info"
                              /\ BaseInfo(self, store, x) = NoAccount}}],
           <<[i \in 1..Len(order) |->
                 [block |-> block_number, tx |-> order[i],
                  logs |-> LogsOf(order[i], diff[order[i]])]]>>,
           block_number)

----------------------------------------------------------------------------
(* BundleState: range queries, revert_to, detach_lower_part_at, extend *)

\* block_number_to_index with the upper check off by one
block_number_to_index_inclusive(self, block_number) ==
    IF self.first_block > block_number THEN None
    ELSE LET index == block_number - self.first_block
         IN IF index > Len(self.receipts) THEN None ELSE Some(index)

\* BundleState::block_number_to_index (index_of)
block_number_to_index(self, block_number) ==
    IF self.first_block > block_number THEN None
    ELSE LET index == block_number - self.first_block
         IN IF index >= Len(self.receipts) THEN None ELSE Some(index)

\* revert_to that takes a block below the range for "revert everything"
revert_to_below_reverts_all(self, block_number) ==
    IF block_number < self.first_block
    THEN [self EXCEPT !.receipts = <<>>,
                      !.bundle = BundleRevert(@, len(self))]
    ELSE LET found == block_number_to_index(self, block_number)
         IN IF found = None THEN self
            ELSE LET index == found[1]
                     new_len == len(self) - (index + 1)
                     rm_trx == len(self) - new_len
                 IN [self EXCEPT !.receipts = truncate(@, new_len),
                                 !.bundle = BundleRevert(@, rm_trx)]

\* revert_to that truncates the receipts and leaves the bundle as it was
revert_to_receipts_only(self, block_number) ==
    LET found == block_number_to_index(self, block_number)
    IN IF found = None THEN self
       ELSE [self EXCEPT !.receipts =
                truncate(@, len(self) - (found[1] + 1))]

\* BundleState::revert_to
revert_to(self, block_number) ==
    LET found == block_number_to_index(self, block_number)
    IN IF found = None THEN self
       ELSE LET index == found[1]
                new_len == len(self) - (index + 1)
                rm_trx == len(self) - new_len
            IN [self EXCEPT !.receipts = truncate(@, new_len),
                            !.bundle = BundleRevert(@, rm_trx)]

\* detach_lower_part_at with the two out-of-range cases collapsed to None
detach_lower_part_at_collapsed(self, block_number) ==
    IF block_number >= last_block(self) \/ block_number < self.first_block
    THEN [self |-> self, ret |-> None, panic |-> FALSE]
    ELSE [self |-> [bundle |-> [self.bundle EXCEPT !.reverts =
                                   split_at_tail(@, (block_number - self.first_block) + 1)],
                    receipts |-> split_at_tail(self.receipts,
                                               (block_number - self.first_block) + 1),
                    first_block |-> block_number + 1],
          ret |-> Some(revert_to(self, block_number)),
          panic |-> FALSE]

\* detach_lower_part_at that detaches everything when asked for a block at or
\* past last_block
detach_lower_part_at_clamped(self, block_number) ==
    IF block_number < self.first_block
    THEN [self |-> self, ret |-> Some(DefaultBundleState), panic |-> FALSE]
    ELSE IF block_number >= last_block(self)
    THEN [self |-> [bundle |-> [self.bundle EXCEPT !.reverts = <<>>],
                    receipts |-> <<>>,
                    first_block |-> last_block(self)],
          ret |-> Some(self), panic |-> FALSE]
    ELSE [self |-> [bundle |-> [self.bundle EXCEPT !.reverts =
                                   split_at_tail(@, (block_number - self.first_block) + 1)],
                    receipts |-> split_at_tail(self.receipts,
                                               (block_number - self.first_block) + 1),
                    first_block |-> block_number + 1],
          ret |-> Some(revert_to(self, block_number)),
          panic |-> FALSE]

\* detach_lower_part_at that leaves self.first_block where it was
detach_lower_part_at_keeps_first_block(self, block_number) ==
    IF block_number >= last_block(self)
    THEN [self |-> self, ret |-> None, panic |-> FALSE]
    ELSE IF block_number < self.first_block
    THEN [self |-> self, ret |-> Some(DefaultBundleState), panic |-> FALSE]
    ELSE LET num_of_detached_block == (block_number - self.first_block) + 1
             detached == BundleDetachLowerPartReverts(self.bundle, num_of_detached_block)
         IN [self |-> [bundle |-> detached[1],
                       receipts |-> split_at_tail(self.receipts, num_of_detached_block),
                       first_block |-> self.first_block],
             ret |-> Some(revert_to(self, block_number)),
             panic |-> FALSE]

\* BundleState::detach_lower_part_at: [self, ret, panic], ret the Option returned
detach_lower_part_at(self, block_number) ==
    IF block_number >= last_block(self)
    THEN [self |-> self, ret |-> None, panic |-> FALSE]
    ELSE IF block_number < self.first_block
    THEN [self |-> self, ret |-> Some(DefaultBundleState), panic |-> FALSE]
    ELSE LET num_of_detached_block == (block_number - self.first_block) + 1
             detached_bundle_state == revert_to(self, block_number)
             this == split_at_tail(self.receipts, num_of_detached_block)
             detached == BundleDetachLowerPartReverts(self.bundle, num_of_detached_block)
         IN IF detached = None
            THEN [self |-> [self EXCEPT !.receipts = this],
                  ret |-> None, panic |-> TRUE]
            ELSE [self |-> [bundle |-> detached[1],
                            receipts |-> this,
                            first_block |-> block_number + 1],
                  ret |-> Some(detached_bundle_state),
                  panic |-> FALSE]

\* extend with a check that other starts where self ends
extend_contiguous_only(self, other) ==
    IF other.first_block # last_block(self) THEN self
    ELSE [self EXCEPT !.bundle = BundleExtend(@, other.bundle),
                      !.receipts = @ \o other.receipts]

\* BundleState::extend
extend(self, other) ==
    [self EXCEPT !.bundle = BundleExtend(@, other.bundle),
                 !.receipts = @ \o other.receipts]

----------------------------------------------------------------------------
(* BundleState: logs, block_logs_bloom, receipts_root_slow and             *)
(* receipts_by_block.  An operator that indexes self.receipts returns      *)
(* [panic, ret]: panic says that the index was out of bounds.              *)

\* flat_map(|r| r.logs.iter())
RECURSIVE flat_map_logs(_)
flat_map_logs(receipts) ==
    IF receipts = <<>> THEN <<>>
    ELSE Head(receipts).logs \o flat_map_logs(Tail(receipts))

\* reth_primitives::logs_bloom: what the logs are, their order and their
\* number forgotten
logs_bloom(block_logs) == {block_logs[i] : i \in 1..Len(block_logs)}

\* reth_primitives::proofs::calculate_receipt_root_ref: a value that stands
\* for the list of receipts
calculate_receipt_root_ref(receipts) == <<"root", receipts>>

\* logs with the index taken from block_number_to_index_inclusive
logs_inclusive(self, block_number) ==
    LET found == block_number_to_index_inclusive(self, block_number)
    IN IF found = None THEN [panic |-> FALSE, ret |-> None]
       ELSE IF found[1] >= Len(self.receipts)
       THEN [panic |-> TRUE, ret |-> None]
       ELSE [panic |-> FALSE,
             ret |-> Some(flat_map_logs(self.receipts[found[1] + 1]))]

logs(self, block_number) ==
    LET found == block_number_to_index(self, block_number)
    IN IF found = None THEN [panic |-> FALSE, ret |-> None]
       ELSE IF found[1] >= Len(self.receipts)
       THEN [panic |-> TRUE, ret |-> None]
       ELSE [panic |-> FALSE,
             ret |-> Some(flat_map_logs(self.receipts[found[1] + 1]))]

block_logs_bloom(self, block_number) ==
    LET block_logs == logs(self, block_number)
    IN IF block_logs.panic \/ block_logs.ret = None THEN block_logs
       ELSE [panic |-> FALSE, ret |-> Some(logs_bloom(block_logs.ret[1]))]

receipts_root_slow(self, block_number) ==
    LET found == block_number_to_index(self, block_number)
    IN IF found = None THEN [panic |-> FALSE, ret |-> None]
       ELSE IF found[1] >= Len(self.receipts)
       THEN [panic |-> TRUE, ret |-> None]
       ELSE [panic |-> FALSE,
             ret |-> Some(calculate_receipt_root_ref(self.receipts[found[1] + 1]))]

receipts_by_block(self, block_number) ==
    LET found == block_number_to_index(self, block_number)
    IN IF found = None THEN [panic |-> FALSE, ret |-> <<>>]
       ELSE IF found[1] >= Len(self.receipts)
       THEN [panic |-> TRUE, ret |-> <<>>]
       ELSE [panic |-> FALSE, ret |-> self.receipts[found[1] + 1]]

----------------------------------------------------------------------------
(* BundleState::hash_state_slow and the HashedPostState it fills *)

\* keccak256 of an address or of a slot key: one to one, and not in the
\* order of its arguments
keccak256(x) == (x * 3) % 5

\* HashedPostState::default
DefaultHashedPostState ==
    [accounts |-> <<>>, cleared_accounts |-> {}, storages |-> <<>>]

insert_account(hashed_state, hashed_address, account) ==
    [hashed_state EXCEPT !.accounts = Append(@, <<hashed_address, account>>)]

insert_cleared_account(hashed_state, hashed_address) ==
    [hashed_state EXCEPT !.cleared_accounts = @ \cup {hashed_address}]

\* HashedStorage::new(wiped)
HashedStorage_new(wiped) ==
    [wiped |-> wiped, non_zero_valued_storage |-> <<>>, zero_valued_slots |-> {}]

insert_zero_valued_slot(hashed_storage, hashed_key) ==
    [hashed_storage EXCEPT !.zero_valued_slots = @ \cup {hashed_key}]

insert_non_zero_valued_storage(hashed_storage, hashed_key, value) ==
    [hashed_storage EXCEPT
        !.non_zero_valued_storage = Append(@, <<hashed_key, value>>)]

insert_hashed_storage(hashed_state, hashed_address, hashed_storage) ==
    [hashed_state EXCEPT !.storages = Append(@, <<hashed_address, hashed_storage>>)]

\* the entries <<key, value>> of a sequence with unique keys, by ascending key
RECURSIVE SortByKey(_)
SortByKey(entries) ==
    IF entries = <<>> THEN <<>>
    ELSE LET least == CHOOSE i \in 1..Len(entries) :
                         \A j \in 1..Len(entries) : entries[i][1] <= entries[j][1]
         IN <<entries[least]>> \o
            SortByKey([k \in 1..(Len(entries) - 1) |->
                          IF k < least THEN entries[k] ELSE entries[k + 1]])

\* HashedPostState::sorted: the accounts, the storages and the slots of each
\* storage by hashed key
sorted(hashed_state) ==
    LET sort_storage(hashed_storage) ==
            [hashed_storage EXCEPT !.non_zero_valued_storage = SortByKey(@)]
        storages == hashed_state.storages
    IN [hashed_state EXCEPT
          !.accounts = SortByKey(@),
          !.storages = SortByKey([i \in 1..Len(storages) |->
                                    <<storages[i][1], sort_storage(storages[i][2])>>])]

\* the loop over account.storage, the slots taken in ascending order
RECURSIVE hash_storage(_, _, _)
hash_storage(hashed_storage, storage, keys) ==
    IF keys = <<>> THEN hashed_storage
    ELSE LET key == Head(keys)
             hashed_key == keccak256(key)
         IN hash_storage(
                IF storage[key].present = 0
                THEN insert_zero_valued_slot(hashed_storage, hashed_key)
                ELSE insert_non_zero_valued_storage(hashed_storage, hashed_key,
                                                    storage[key].present),
                storage, Tail(keys))

\* the loop over self.bundle.state(), the addresses taken in ascending order
RECURSIVE hash_accounts(_, _, _)
hash_accounts(hashed_state, state, addresses) ==
    IF addresses = <<>> THEN hashed_state
    ELSE LET address == Head(addresses)
             account == state[address]
             hashed_address == keccak256(address)
             with_account ==
                 IF account.info # NoAccount
                 THEN insert_account(hashed_state, hashed_address, account.info)
                 ELSE insert_cleared_account(hashed_state, hashed_address)
             hashed_storage ==
                 hash_storage(HashedStorage_new(account.destroyed),
                              account.storage, SortedSeq(DOMAIN account.storage))
         IN hash_accounts(
                insert_hashed_storage(with_account, hashed_address, hashed_storage),
                state, Tail(addresses))

\* the hashed state returned as it was filled, without sorted()
hash_state_slow_unsorted(self) ==
    hash_accounts(DefaultHashedPostState, self.bundle.state,
                  SortedSeq(DOMAIN self.bundle.state))

hash_state_slow(self) ==
    sorted(hash_accounts(DefaultHashedPostState, self.bundle.state,
                         SortedSeq(DOMAIN self.bundle.state)))

----------------------------------------------------------------------------
(* The database tables.                                                    *)
(*   accounts          PlainAccountState: address -> account or NoAccount  *)
(*   storage           PlainStorageState: dup-sorted <<address, slot, v>>  *)
(*   account_changeset AccountChangeSet: appended <<block, address, info>> *)
(*   storage_changeset StorageChangeSet: appended <<block, address, slot, v>> *)
(*   receipts          Receipts: appended <<index, receipt>>               *)
(*   bytecodes         Bytecodes: code hashes                              *)

\* order of the duplicates of one key: by slot, then by value
EntryLess(x, y) == x[1] < y[1] \/ (x[1] = y[1] /\ x[2] < y[2])

RECURSIVE SortedEntries(_)
SortedEntries(S) ==
    IF S = {} THEN <<>>
    ELSE LET m == CHOOSE x \in S : \A y \in S : x = y \/ EntryLess(x, y)
         IN <<m>> \o SortedEntries(S \ {m})

\* revm BundleState::take_reverts: per block, the account reverts sorted by
\* address and the storage reverts <<address, wipe_storage, sorted slots>>
RevertsOfBlock(entry) ==
    LET withAccount == {a \in DOMAIN entry : entry[a].account[1] # "nothing"}
        withStorage == {a \in DOMAIN entry :
                           entry[a].wipe \/ DOMAIN entry[a].storage # {}}
        accountOrder == SortedSeq(withAccount)
        storageOrder == SortedSeq(withStorage)
    IN [accounts |->
            [i \in 1..Len(accountOrder) |->
                LET a == accountOrder[i]
                IN <<a, IF entry[a].account[1] = "delete" THEN NoAccount
                        ELSE entry[a].account[2]>>],
        storage |->
            [i \in 1..Len(storageOrder) |->
                LET a == storageOrder[i]
                IN <<a, entry[a].wipe,
                     SortedEntries({<<s, entry[a].storage[s]>> :
                                       s \in DOMAIN entry[a].storage})>>]]

take_reverts(bundle) ==
    [accounts |-> [i \in 1..Len(bundle.reverts) |-> RevertsOfBlock(bundle.reverts[i]).accounts],
     storage |-> [i \in 1..Len(bundle.reverts) |-> RevertsOfBlock(bundle.reverts[i]).storage]]

\* revm BundleState::take_sorted_plain_change_inner
take_sorted_plain_change_inner(bundle, omit_changed_check) ==
    LET st == bundle.state
        addrs == SortedSeq(DOMAIN st)
        changedAccounts ==
            SortedSeq({a \in DOMAIN st :
                          omit_changed_check \/ st[a].original_info # st[a].info})
        changedSlots(a) ==
            {s \in DOMAIN st[a].storage :
                \/ omit_changed_check
                \/ IF st[a].destroyed
                   THEN st[a].storage[s].present # 0
                   ELSE st[a].storage[s].present # st[a].storage[s].original}
    IN [accounts |-> [i \in 1..Len(changedAccounts) |->
                        <<changedAccounts[i], st[changedAccounts[i]].info>>],
        storage |-> [i \in 1..Len(addrs) |->
                        <<addrs[i],
                          <<st[addrs[i]].destroyed,
                            SortedEntries({<<s, st[addrs[i]].storage[s].present>> :
                                              s \in changedSlots(addrs[i])})>>>>],
        contracts |-> bundle.contracts]

----------------------------------------------------------------------------
(* Calls on the transaction and its cursors.  Every call of the writers is *)
(* followed by `?`: a DatabaseError ends the write and is returned.  The   *)
(* store records the calls issued (log), the call that fails (fail_at, 0   *)
(* when none does) and whether an error was returned (err).                *)

Op(name, table, args) == <<name, table, args>>

\* the call with its error dropped: the write goes on after a failure
Try_unchecked(store, op, done) ==
    [done EXCEPT !.log = Append(store.log, op),
                 !.err = store.err \/ Len(store.log) + 1 = store.fail_at]

\* `call(..)?`: nothing once an error was returned; the failing call has no
\* effect and returns the error; otherwise the call's effect, done
Try(store, op, done) ==
    IF store.err THEN store
    ELSE IF Len(store.log) + 1 = store.fail_at
    THEN [store EXCEPT !.log = Append(@, op), !.err = TRUE]
    ELSE [done EXCEPT !.log = Append(store.log, op)]

\* calls that only read
RECURSIVE TryEach(_, _)
TryEach(store, ops) ==
    IF ops = <<>> THEN store
    ELSE TryEach(Try(store, Head(ops), store), Tail(ops))

----------------------------------------------------------------------------
(* StateReverts::write_to_db *)

\* seek_exact(address) and next_dup_val until exhausted: the address's
\* persisted <<slot, value>> entries in ascending order
wiped_storage_scan(storage, address) ==
    SortedEntries({<<e[2], e[3]>> : e \in {x \in storage : x[1] = address}})

\* delete_current alone: the first duplicate of the address goes
delete_current_duplicates_first_only(storage, address) ==
    LET dups == wiped_storage_scan(storage, address)
    IN IF dups = <<>> THEN storage
       ELSE storage \ {<<address, Head(dups)[1], Head(dups)[2]>>}

\* delete_current_duplicates
delete_current_duplicates(storage, address) ==
    {e \in storage : e[1] # address}

\* the merge with the wiped value winning on an equal slot
RECURSIVE merge_wiped_prefers_wiped(_, _)
merge_wiped_prefers_wiped(wiped, revert) ==
    IF wiped = <<>> /\ revert = <<>> THEN <<>>
    ELSE IF revert = <<>>
    THEN <<Head(wiped)>> \o merge_wiped_prefers_wiped(Tail(wiped), revert)
    ELSE IF wiped = <<>>
    THEN <<Head(revert)>> \o merge_wiped_prefers_wiped(wiped, Tail(revert))
    ELSE LET w == Head(wiped)
             r == Head(revert)
         IN IF w[1] < r[1] THEN <<w>> \o merge_wiped_prefers_wiped(Tail(wiped), revert)
            ELSE IF w[1] > r[1]
            THEN <<r>> \o merge_wiped_prefers_wiped(wiped, Tail(revert))
            ELSE <<w>> \o merge_wiped_prefers_wiped(Tail(wiped), Tail(revert))

\* the two-iterator loop over wiped_iter and revert_iter
RECURSIVE merge_wiped(_, _)
merge_wiped(wiped, revert) ==
    IF wiped = <<>> /\ revert = <<>> THEN <<>>
    ELSE IF revert = <<>> THEN <<Head(wiped)>> \o merge_wiped(Tail(wiped), revert)
    ELSE IF wiped = <<>> THEN <<Head(revert)>> \o merge_wiped(wiped, Tail(revert))
    ELSE LET w == Head(wiped)
             r == Head(revert)
         IN IF w[1] < r[1] THEN <<w>> \o merge_wiped(Tail(wiped), revert)
            ELSE IF w[1] > r[1] THEN <<r>> \o merge_wiped(wiped, Tail(revert))
            ELSE <<r>> \o merge_wiped(Tail(wiped), Tail(revert))

\* the entries appended with the wiped storage left out
storage_changeset_entries_without_wiped(wiped_storage, storage) == storage

\* what is appended to StorageChangeSet for one (block, address)
storage_changeset_entries(wiped_storage, storage) ==
    IF wiped_storage = <<>> THEN storage ELSE merge_wiped(wiped_storage, storage)

\* storage_changeset_cursor.append_dup(storage_id, entry)? for each entry
RECURSIVE append_storage_changeset(_, _)
append_storage_changeset(store, entries) ==
    IF entries = <<>> THEN store
    ELSE append_storage_changeset(
             Try(store, Op("append_dup", "StorageChangeSet", Head(entries)),
                 [store EXCEPT !.storage_changeset = Append(@, Head(entries))]),
             Tail(entries))

\* the body of the loop over one block's (address, wipe_storage, storage)
write_storage_revert(store, block_number, change) ==
    LET address == change[1]
        wipe_storage == change[2]
        storage == change[3]
        found == wipe_storage /\ \E e \in store.storage : e[1] = address
        sought == IF wipe_storage
                  THEN Try(store, Op("seek_exact", "PlainStorageState", <<address>>),
                           store)
                  ELSE store
        wiped_storage == IF found
                         THEN wiped_storage_scan(store.storage, address)
                         ELSE <<>>
        scanned == TryEach(sought,
                       [i \in 1..Len(wiped_storage) |->
                           Op("next_dup_val", "PlainStorageState", <<address>>)])
        reseeked == IF found
                    THEN Try(scanned,
                             Op("seek_exact", "PlainStorageState", <<address>>),
                             scanned)
                    ELSE scanned
        deleted == IF found
                   THEN Try(reseeked,
                            Op("delete_current_duplicates", "PlainStorageState",
                               <<address>>),
                            [reseeked EXCEPT !.storage =
                                delete_current_duplicates(@, address)])
                   ELSE reseeked
        emitted == storage_changeset_entries(wiped_storage, storage)
    IN append_storage_changeset(deleted,
           [i \in 1..Len(emitted) |->
               <<block_number, address, emitted[i][1], emitted[i][2]>>])

RECURSIVE write_block_storage_reverts(_, _, _)
write_block_storage_reverts(store, block_number, storage_changes) ==
    IF storage_changes = <<>> THEN store
    ELSE write_block_storage_reverts(
             write_storage_revert(store, block_number, Head(storage_changes)),
             block_number, Tail(storage_changes))

\* blocks i..Len of self.0.storage, enumerate() giving i - 1
RECURSIVE write_storage_reverts(_, _, _, _)
write_storage_reverts(store, first, storage, i) ==
    IF i > Len(storage) THEN store
    ELSE write_storage_reverts(
             write_block_storage_reverts(store, first + (i - 1), storage[i]),
             first, storage, i + 1)

\* account_changeset_cursor.append_dup(block_number, entry)? for each entry
RECURSIVE append_account_changeset(_, _)
append_account_changeset(store, entries) ==
    IF entries = <<>> THEN store
    ELSE append_account_changeset(
             Try(store, Op("append_dup", "AccountChangeSet", Head(entries)),
                 [store EXCEPT !.account_changeset = Append(@, Head(entries))]),
             Tail(entries))

\* blocks i..Len of self.0.accounts
RECURSIVE write_account_reverts(_, _, _, _)
write_account_reverts(store, first, accounts, i) ==
    IF i > Len(accounts) THEN store
    ELSE write_account_reverts(
             append_account_changeset(store,
                 [j \in 1..Len(accounts[i]) |->
                     <<first + (i - 1), accounts[i][j][1], accounts[i][j][2]>>]),
             first, accounts, i + 1)

StateReverts_write_to_db(reverts, store, first) ==
    LET storages_cursor ==
            Try(store, Op("cursor_dup_write", "PlainStorageState", <<>>), store)
        storage_changeset_cursor ==
            Try(storages_cursor,
                Op("cursor_dup_write", "StorageChangeSet", <<>>), storages_cursor)
        storages == write_storage_reverts(storage_changeset_cursor, first,
                                          reverts.storage, 1)
        account_changeset_cursor ==
            Try(storages, Op("cursor_dup_write", "AccountChangeSet", <<>>), storages)
    IN write_account_reverts(account_changeset_cursor, first, reverts.accounts, 1)

----------------------------------------------------------------------------
(* StateChange::write_to_db *)

\* DbDupCursorRO::seek_by_key_subkey: the first duplicate of address whose
\* slot is >= key
seek_by_key_subkey(storage, address, key) ==
    LET c == {<<e[2], e[3]>> : e \in {x \in storage : x[1] = address /\ x[2] >= key}}
    IN IF c = {} THEN None ELSE Some(Head(SortedEntries(c)))

\* the slot written by an upsert alone, the old entry not deleted
write_slot_upsert_only(store, address, key, value) ==
    IF value # 0
    THEN Try(store, Op("upsert", "PlainStorageState", <<address, key, value>>),
             [store EXCEPT !.storage = @ \cup {<<address, key, value>>}])
    ELSE store

\* the slot written with the entry the seek lands on deleted, whatever its key
write_slot_deletes_sought(store, address, key, value) ==
    LET entry == seek_by_key_subkey(store.storage, address, key)
        sought == Try(store,
                      Op("seek_by_key_subkey", "PlainStorageState", <<address, key>>),
                      store)
        deleted == IF entry # None
                   THEN Try(sought,
                            Op("delete_current", "PlainStorageState",
                               <<address, entry[1][1]>>),
                            [sought EXCEPT !.storage =
                                @ \ {<<address, entry[1][1], entry[1][2]>>}])
                   ELSE sought
    IN IF value # 0
       THEN Try(deleted, Op("upsert", "PlainStorageState", <<address, key, value>>),
                [deleted EXCEPT !.storage = @ \cup {<<address, key, value>>}])
       ELSE deleted

\* the body of the loop over one (key, value) of an address
write_slot(store, address, key, value) ==
    LET entry == seek_by_key_subkey(store.storage, address, key)
        sought == Try(store,
                      Op("seek_by_key_subkey", "PlainStorageState", <<address, key>>),
                      store)
        deleted == IF entry # None /\ entry[1][1] = key
                   THEN Try(sought,
                            Op("delete_current", "PlainStorageState",
                               <<address, key>>),
                            [sought EXCEPT !.storage =
                                @ \ {<<address, entry[1][1], entry[1][2]>>}])
                   ELSE sought
    IN IF value # 0
       THEN Try(deleted, Op("upsert", "PlainStorageState", <<address, key, value>>),
                [deleted EXCEPT !.storage = @ \cup {<<address, key, value>>}])
       ELSE deleted

RECURSIVE write_slots(_, _, _)
write_slots(store, address, slots) ==
    IF slots = <<>> THEN store
    ELSE write_slots(write_slot(store, address, Head(slots)[1], Head(slots)[2]),
                     address, Tail(slots))

RECURSIVE write_storage_change(_, _)
write_storage_change(store, changes) ==
    IF changes = <<>> THEN store
    ELSE write_storage_change(
             write_slots(store, Head(changes)[1], Head(changes)[2][2]),
             Tail(changes))

\* the account written with delete_current issued whether or not
\* seek_exact found an entry
write_account_always_deletes(store, address, account) ==
    IF account # NoAccount
    THEN Try(store, Op("upsert", "PlainAccountState", <<address, account>>),
             [store EXCEPT !.accounts[address] = account])
    ELSE LET sought == Try(store,
                           Op("seek_exact", "PlainAccountState", <<address>>),
                           store)
         IN Try(sought, Op("delete_current", "PlainAccountState", <<address>>),
                [sought EXCEPT !.accounts[address] = NoAccount])

\* the body of the loop over one (address, account): upsert when the account
\* is Some, delete_current when it is None and seek_exact finds an entry
write_account(store, address, account) ==
    IF account # NoAccount
    THEN Try(store, Op("upsert", "PlainAccountState", <<address, account>>),
             [store EXCEPT !.accounts[address] = account])
    ELSE LET sought == Try(store,
                           Op("seek_exact", "PlainAccountState", <<address>>),
                           store)
         IN IF store.accounts[address] # NoAccount
            THEN Try(sought,
                     Op("delete_current", "PlainAccountState", <<address>>),
                     [sought EXCEPT !.accounts[address] = NoAccount])
            ELSE sought

RECURSIVE write_account_change(_, _)
write_account_change(store, changes) ==
    IF changes = <<>> THEN store
    ELSE write_account_change(
             write_account(store, Head(changes)[1], Head(changes)[2]),
             Tail(changes))

\* the iteration order of self.0.contracts
ContractOrder == <<"i1", "i2">>

\* bytecodes_cursor.upsert(hash, bytecode)? for each contract
RECURSIVE write_bytecodes(_, _)
write_bytecodes(store, contracts) ==
    IF contracts = <<>> THEN store
    ELSE write_bytecodes(
             Try(store, Op("upsert", "Bytecodes", <<Head(contracts)>>),
                 [store EXCEPT !.bytecodes = @ \cup {Head(contracts)}]),
             Tail(contracts))

StateChange_write_to_db(change, store) ==
    LET storages_cursor ==
            Try(store, Op("cursor_dup_write", "PlainStorageState", <<>>), store)
        storages == write_storage_change(storages_cursor, change.storage)
        accounts_cursor ==
            Try(storages, Op("cursor_write", "PlainAccountState", <<>>), storages)
        accounts == write_account_change(accounts_cursor, change.accounts)
        bytecodes_cursor ==
            Try(accounts, Op("cursor_write", "Bytecodes", <<>>), accounts)
    IN write_bytecodes(bytecodes_cursor,
           SelectSeq(ContractOrder, LAMBDA h : h \in change.contracts))

----------------------------------------------------------------------------
(* BundleState::write_to_db *)

\* the next number taken from the count of the entries
next_receipt_number_counted(receipts) == Len(receipts)

\* receipts_cursor.last() + 1, or 0
next_receipt_number(receipts) ==
    IF receipts = <<>> THEN 0 ELSE receipts[Len(receipts)][1] + 1

RECURSIVE flatten(_)
flatten(blocks) ==
    IF blocks = <<>> THEN <<>> ELSE Head(blocks) \o flatten(Tail(blocks))

\* receipts_cursor.append(next_number, receipt)? for each receipt
RECURSIVE append_receipts(_, _, _)
append_receipts(store, next_number, receipts) ==
    IF receipts = <<>> THEN store
    ELSE append_receipts(
             Try(store, Op("append", "Receipts", <<next_number>>),
                 [store EXCEPT !.receipts =
                     Append(@, <<next_number, Head(receipts)>>)]),
             next_number + 1, Tail(receipts))

write_receipts(store, receipts) ==
    LET receipts_cursor ==
            Try(store, Op("cursor_write", "Receipts", <<>>), store)
        read == Try(receipts_cursor, Op("last", "Receipts", <<>>), receipts_cursor)
    IN append_receipts(read, next_receipt_number(store.receipts),
                       flatten(receipts))

\* the final state written before the reverts
write_to_db_change_first(self, store, omit_changed_check) ==
    StateReverts_write_to_db(
        take_reverts(self.bundle),
        StateChange_write_to_db(
            take_sorted_plain_change_inner(self.bundle, omit_changed_check),
            write_receipts(store, self.receipts)),
        self.first_block)

write_to_db(self, store, omit_changed_check) ==
    StateChange_write_to_db(
        take_sorted_plain_change_inner(self.bundle, omit_changed_check),
        StateReverts_write_to_db(
            take_reverts(self.bundle),
            write_receipts(store, self.receipts),
            self.first_block))

----------------------------------------------------------------------------
(* The aggregator's life: built by extend from executed blocks, shrunk by  *)
(* revert_to and detach_lower_part_at, queried, and consumed by the flush. *)

FirstBlock == 100

Store(accounts, storage, receipts) ==
    [accounts |-> accounts, storage |-> storage,
     account_changeset |-> <<>>, storage_changeset |-> <<>>,
     receipts |-> receipts, bytecodes |-> {},
     log |-> <<>>, fail_at |-> 0, err |-> FALSE]

\* the stores the range may start from
InitStores ==
    { Store([a \in Addresses |-> NoAccount], {}, <<>>),
      Store((1 :> "i1") @@ (2 :> NoAccount),
            {<<1, 1, 1>>, <<1, 2, 2>>},
            <<<<0, "old">>, <<1, "old">>>>),
      Store((1 :> "i1") @@ (2 :> "i2"),
            {<<1, 2, 1>>, <<2, 1, 2>>, <<2, 2, 1>>},
            <<<<0, "old">>>>) }

\* the diffs the blocks of the algebra are drawn from: at most one operation
\* per address
AlgebraDiffs ==
    { EmptyFn,
      (1 :> <<"info", "i2">>),
      (1 :> <<"slot", 1, 2>>),
      (1 :> <<"slot", 1, 0>>),
      (1 :> <<"destroy">>),
      (1 :> <<"slot", 2, 1>>) @@ (2 :> <<"info", "i1">>) }

\* the diffs the blocks of a flushed range are drawn from: any operation on
\* address 1, alone or beside one on address 2
FlushDiffs ==
    AlgebraDiffs
        \cup {(1 :> op) : op \in AllOps}
        \cup { (1 :> <<"destroy">>) @@ (2 :> <<"slot", 1, 1>>),
               (1 :> <<"slot", 2, 0>>) @@ (2 :> <<"destroy">>),
               (1 :> <<"info", "i1">>) @@ (2 :> <<"slot", 2, 0>>),
               (2 :> <<"slot", 2, 2>>) }

\* the stores a flushed range may start from
FlushStores ==
    InitStores \cup
    { Store((1 :> "i2") @@ (2 :> NoAccount), {<<1, 1, 2>>}, <<>>),
      Store((1 :> "i1") @@ (2 :> "i1"), {<<2, 2, 2>>}, <<<<0, "old">>, <<3, "old">>>>) }

\* the diffs of an alphabet a block may have on top of self
BlockDiffs(alphabet, self, store) ==
    {d \in alphabet : \A a \in DOMAIN d : ValidOp(self, store, a, d[a])}

\* the block numbers a caller may pass: around and inside the range
BlockArgs(self) == (self.first_block - 1)..(last_block(self) + 1)

Call(op, arg, ret) ==
    [op |-> op, arg |-> arg, pre |-> agg, prehist |-> hist, ret |-> ret]

Init ==
    /\ db0 \in InitStores
    /\ db = db0
    /\ agg = new(EmptyBundle, <<>>, FirstBlock)
    /\ hist = <<>>
    /\ last = [op |-> "new", arg |-> None, pre |-> DefaultBundleState,
               prehist |-> <<>>, ret |-> None]
    /\ pc = "live"

\* a block is executed on top of self and self is extended with it
Extend(diff) ==
    /\ pc = "live"
    /\ last_block(agg) < FirstBlock + MaxBlocks
    /\ LET other == ExecBlock(agg, db, diff, last_block(agg))
       IN /\ agg' = extend(agg, other)
          /\ hist' = Append(hist, other)
          /\ last' = Call("extend", other, None)
    /\ UNCHANGED <<db, db0, pc>>

RevertTo(block_number) ==
    /\ pc = "live"
    /\ agg' = revert_to(agg, block_number)
    /\ hist' = truncate(hist, len(agg'))
    /\ last' = Call("revert_to", block_number, None)
    /\ UNCHANGED <<db, db0, pc>>

DetachLowerPartAt(block_number) ==
    /\ pc = "live"
    /\ LET r == detach_lower_part_at(agg, block_number)
       IN /\ agg' = r.self
          /\ hist' = split_at_tail(hist, Len(hist) - len(r.self))
          /\ last' = Call("detach_lower_part_at", block_number, r.ret)
          /\ pc' = IF r.panic THEN "panicked" ELSE "live"
    /\ UNCHANGED <<db, db0>>

IndexOf(block_number) ==
    /\ pc = "live"
    /\ last' = Call("index_of", block_number, block_number_to_index(agg, block_number))
    /\ UNCHANGED <<agg, hist, db, db0, pc>>

\* Ok(()) or Err(DatabaseError)
Result(store) == IF store.err THEN <<"Err">> ELSE <<"Ok">>

Flush(omit_changed_check) ==
    /\ pc = "live"
    /\ db' = write_to_db(agg, db, omit_changed_check)
    /\ last' = Call("write_to_db", omit_changed_check, Result(db'))
    /\ pc' = "flushed"
    /\ UNCHANGED <<agg, hist, db0>>

Next ==
    \/ \E diff \in BlockDiffs(AlgebraDiffs, agg, db) : Extend(diff)
    \/ \E block_number \in BlockArgs(agg) : RevertTo(block_number)
    \/ \E block_number \in BlockArgs(agg) : DetachLowerPartAt(block_number)
    \/ \E block_number \in BlockArgs(agg) : IndexOf(block_number)
    \/ \E omit_changed_check \in BOOLEAN : Flush(omit_changed_check)

Spec == Init /\ [][Next]_vars

\* the fragment detach_lower_part_at has just returned is flushed; its blocks
\* are the leading blocks of the aggregator it was cloned from
FlushFragment(omit_changed_check) ==
    /\ pc = "live"
    /\ last.op = "detach_lower_part_at"
    /\ last.ret # None
    /\ LET fragment == last.ret[1]
       IN /\ db' = write_to_db(fragment, db, omit_changed_check)
          /\ last' = [op |-> "fragment.write_to_db", arg |-> omit_changed_check,
                      pre |-> fragment,
                      prehist |-> truncate(last.prehist, len(fragment)),
                      ret |-> Result(db')]
    /\ pc' = "flushed"
    /\ UNCHANGED <<agg, hist, db0>>

\* the algebra, with self or a detached fragment flushed at the end
NextDetached ==
    \/ Next
    \/ \E omit_changed_check \in BOOLEAN : FlushFragment(omit_changed_check)

SpecDetached == Init /\ [][NextDetached]_vars

InitFlush ==
    /\ db0 \in FlushStores
    /\ db = db0
    /\ agg = new(EmptyBundle, <<>>, FirstBlock)
    /\ hist = <<>>
    /\ last = [op |-> "new", arg |-> None, pre |-> DefaultBundleState,
               prehist |-> <<>>, ret |-> None]
    /\ pc = "live"

\* a range is built block by block and flushed
NextFlush ==
    \/ \E diff \in BlockDiffs(FlushDiffs, agg, db) : Extend(diff)
    \/ \E omit_changed_check \in BOOLEAN : Flush(omit_changed_check)

SpecFlush == InitFlush /\ [][NextFlush]_vars

\* self is extended with a block that does not start at self's next block
ExtendMisplaced(diff, block_number) ==
    /\ pc = "live"
    /\ last_block(agg) < FirstBlock + MaxBlocks
    /\ block_number # last_block(agg)
    /\ LET other == ExecBlock(agg, db, diff, block_number)
       IN /\ agg' = extend(agg, other)
          /\ hist' = Append(hist, other)
          /\ last' = Call("extend", other, None)
    /\ UNCHANGED <<db, db0, pc>>

\* self is extended with an aggregator of two blocks
ExtendTwo(diff, next_diff) ==
    /\ pc = "live"
    /\ last_block(agg) + 1 < FirstBlock + MaxBlocks
    /\ LET first == ExecBlock(agg, db, diff, last_block(agg))
           base == extend(agg, first)
       IN /\ next_diff \in BlockDiffs(AlgebraDiffs, base, db)
          /\ LET second == ExecBlock(base, db, next_diff, last_block(base))
                 other == extend(first, second)
             IN /\ agg' = extend(agg, other)
                /\ hist' = hist \o <<first, second>>
                /\ last' = Call("extend", other, None)
    /\ UNCHANGED <<db, db0, pc>>

\* the first blocks of a misplaced other: far below, self's own first block,
\* and one past self's next block
MisplacedBlocks(self) == {0, self.first_block, last_block(self) + 2}

\* an aggregator is grown by extend alone
NextBuild ==
    \/ \E diff \in BlockDiffs(AlgebraDiffs, agg, db) : Extend(diff)
    \/ \E diff \in BlockDiffs(AlgebraDiffs, agg, db) :
          \E block_number \in MisplacedBlocks(agg) :
             ExtendMisplaced(diff, block_number)
    \/ \E diff \in BlockDiffs(AlgebraDiffs, agg, db) :
          \E next_diff \in AlgebraDiffs : ExtendTwo(diff, next_diff)

SpecBuild == Init /\ [][NextBuild]_vars

\* the number of calls a flush issues when none of them fails
FlushCalls(self, store, omit_changed_check) ==
    Len(write_to_db(self, store, omit_changed_check).log)

\* the flush with its fail_at-th call on the store returning an error
FlushFailing(omit_changed_check, fail_at) ==
    /\ pc = "live"
    /\ fail_at \in 1..FlushCalls(agg, db, omit_changed_check)
    /\ db' = write_to_db(agg, [db EXCEPT !.fail_at = fail_at], omit_changed_check)
    /\ last' = Call("write_to_db", omit_changed_check, Result(db'))
    /\ pc' = "flushed"
    /\ UNCHANGED <<agg, hist, db0>>

\* a range is built block by block and flushed on a store that may fail
NextFail ==
    \/ \E diff \in BlockDiffs(AlgebraDiffs, agg, db) : Extend(diff)
    \/ \E omit_changed_check \in BOOLEAN : Flush(omit_changed_check)
    \/ \E omit_changed_check \in BOOLEAN :
          \E fail_at \in 1..FlushCalls(agg, db, omit_changed_check) :
             FlushFailing(omit_changed_check, fail_at)

SpecFail == Init /\ [][NextFail]_vars

Logs(block_number) ==
    /\ pc = "live"
    /\ LET r == logs(agg, block_number)
       IN /\ last' = Call("logs", block_number, r.ret)
          /\ pc' = IF r.panic THEN "panicked" ELSE "live"
    /\ UNCHANGED <<agg, hist, db, db0>>

BlockLogsBloom(block_number) ==
    /\ pc = "live"
    /\ LET r == block_logs_bloom(agg, block_number)
       IN /\ last' = Call("block_logs_bloom", block_number, r.ret)
          /\ pc' = IF r.panic THEN "panicked" ELSE "live"
    /\ UNCHANGED <<agg, hist, db, db0>>

ReceiptsRootSlow(block_number) ==
    /\ pc = "live"
    /\ LET r == receipts_root_slow(agg, block_number)
       IN /\ last' = Call("receipts_root_slow", block_number, r.ret)
          /\ pc' = IF r.panic THEN "panicked" ELSE "live"
    /\ UNCHANGED <<agg, hist, db, db0>>

ReceiptsByBlock(block_number) ==
    /\ pc = "live"
    /\ LET r == receipts_by_block(agg, block_number)
       IN /\ last' = Call("receipts_by_block", block_number, r.ret)
          /\ pc' = IF r.panic THEN "panicked" ELSE "live"
    /\ UNCHANGED <<agg, hist, db, db0>>

HashStateSlow ==
    /\ pc = "live"
    /\ last' = Call("hash_state_slow", None, hash_state_slow(agg))
    /\ UNCHANGED <<agg, hist, db, db0, pc>>

\* a range is built block by block and read
NextQuery ==
    \/ \E diff \in BlockDiffs(AlgebraDiffs, agg, db) : Extend(diff)
    \/ \E block_number \in BlockArgs(agg) : Logs(block_number)
    \/ \E block_number \in BlockArgs(agg) : BlockLogsBloom(block_number)
    \/ \E block_number \in BlockArgs(agg) : ReceiptsRootSlow(block_number)
    \/ \E block_number \in BlockArgs(agg) : ReceiptsByBlock(block_number)
    \/ HashStateSlow

SpecQuery == Init /\ [][NextQuery]_vars

----------------------------------------------------------------------------
(* The two database writers on their own: a store is opened and one of     *)
(* StateReverts::write_to_db, StateChange::write_to_db is applied to it.   *)

WriteSlots == {1, 2, 3}

\* the ascending <<slot, value>> sequences with unique slots
SlotSeqs(slots, values) ==
    UNION {{SortedEntries({<<s, f[s]>> : s \in S}) : f \in [S -> values]} :
              S \in SUBSET slots}

EntriesOf(address, seq) == {<<address, seq[i][1], seq[i][2]>> : i \in 1..Len(seq)}

WriteStores ==
    {Store(accounts, EntriesOf(1, w1) \cup w2, <<>>) :
        accounts \in {(1 :> "i1") @@ (2 :> "i2"), (1 :> NoAccount) @@ (2 :> "i2")},
        w1 \in SlotSeqs(WriteSlots, {1, 2}),
        w2 \in {{}, {<<2, 2, 1>>}}}

InitWrite ==
    /\ db0 \in WriteStores
    /\ db = db0
    /\ agg = DefaultBundleState
    /\ hist = <<>>
    /\ last = [op |-> "open", arg |-> None, pre |-> DefaultBundleState,
               prehist |-> <<>>, ret |-> None]
    /\ pc = "store"

\* StateReverts(reverts).write_to_db(tx, first_block) for one block holding
\* one storage revert of address 1
WriteReverts(wipe_storage, storage, accounts) ==
    /\ pc = "store"
    /\ LET reverts == [accounts |-> <<accounts>>,
                       storage |-> <<<<<<1, wipe_storage, storage>>>>>>]
       IN /\ db' = StateReverts_write_to_db(reverts, db, FirstBlock)
          /\ last' = Call("StateReverts::write_to_db", reverts, Result(db'))
    /\ pc' = "written"
    /\ UNCHANGED <<agg, hist, db0>>

\* StateChange(change).write_to_db(tx)
WriteChange(change) ==
    /\ pc = "store"
    /\ db' = StateChange_write_to_db(change, db)
    /\ last' = Call("StateChange::write_to_db", change, Result(db'))
    /\ pc' = "written"
    /\ UNCHANGED <<agg, hist, db0>>

\* the net diffs written: address 1 with any slots, address 2 with at most one
Changes ==
    {[accounts |-> accounts,
      storage |-> <<<<1, <<wiped, s1>>>>>> \o s2,
      contracts |-> IF accounts = <<>> THEN {} ELSE {"i2"}] :
        accounts \in {<<>>, <<<<1, "i2">>>>, <<<<1, NoAccount>>, <<2, "i1">>>>},
        wiped \in BOOLEAN,
        s1 \in SlotSeqs(WriteSlots, Values),
        s2 \in {<<>>, <<<<2, <<FALSE, <<<<1, 2>>>>>>>>>>, <<<<2, <<FALSE, <<<<2, 0>>>>>>>>>>}}

NextWrite ==
    \/ \E wipe_storage \in BOOLEAN, storage \in SlotSeqs(WriteSlots, Values),
          accounts \in {<<>>, <<<<1, NoAccount>>>>} :
            WriteReverts(wipe_storage, storage, accounts)
    \/ \E change \in Changes : WriteChange(change)

SpecWrite == InitWrite /\ [][NextWrite]_vars

----------------------------------------------------------------------------
(* Properties *)

InRange(self, block_number) ==
    self.first_block <= block_number /\ block_number < last_block(self)

\* the present account and slot values an aggregator knows
PresentValues(self) ==
    [a \in DOMAIN self.bundle.state |->
        [info |-> self.bundle.state[a].info,
         storage |-> [s \in DOMAIN self.bundle.state[a].storage |->
                         self.bundle.state[a].storage[s].present]]]

RECURSIVE ExtendAll(_, _)
ExtendAll(self, others) ==
    IF others = <<>> THEN self
    ELSE ExtendAll(extend(self, Head(others)), Tail(others))

RevertedInRange == last.op = "revert_to" /\ InRange(last.pre, last.arg)

DetachedInRange == last.op = "detach_lower_part_at" /\ InRange(last.pre, last.arg)

\* C1: revert_to(k) of an in-range block k keeps blocks first_block..k: the
\* length becomes index_of(k)+1, the receipts are the leading index_of(k)+1
\* lists, exactly len-(index_of(k)+1) journal entries are undone, first_block
\* is unchanged and k is still in range.
C1_RevertToKeepsThroughK ==
    RevertedInRange =>
        LET index == last.arg - last.pre.first_block
            removed == len(last.pre) - (index + 1)
        IN /\ len(agg) = index + 1
           /\ agg.receipts = SubSeq(last.pre.receipts, 1, index + 1)
           /\ Len(agg.bundle.reverts) = Len(last.pre.bundle.reverts) - removed
           /\ agg.bundle = BundleRevert(last.pre.bundle, removed)
           /\ agg.first_block = last.pre.first_block
           /\ block_number_to_index(agg, last.arg) # None

\* C2: detach_lower_part_at(k) of an in-range block k returns a fragment
\* covering first_block..k with the leading receipts, and leaves self covering
\* k+1..last_block with the trailing receipts; together they are the original
\* receipts.
C2_DetachSplitsAtK ==
    DetachedInRange =>
        /\ last.ret # None
        /\ LET fragment == last.ret[1]
               n == last.arg - last.pre.first_block + 1
           IN /\ fragment.first_block = last.pre.first_block
              /\ len(fragment) = n
              /\ fragment.receipts = SubSeq(last.pre.receipts, 1, n)
              /\ agg.first_block = last.arg + 1
              /\ last_block(agg) = last_block(last.pre)
              /\ agg.receipts = SubSeq(last.pre.receipts, n + 1, len(last.pre))
              /\ fragment.receipts \o agg.receipts = last.pre.receipts

\* C3: after revert_to(k) of an in-range block k, extending with the blocks
\* after k reproduces the original present values and receipts.
C3_RevertThenExtendIsIdentity ==
    RevertedInRange =>
        LET index == last.arg - last.pre.first_block
            removed == SubSeq(last.prehist, index + 2, Len(last.prehist))
            again == ExtendAll(agg, removed)
        IN /\ PresentValues(again) = PresentValues(last.pre)
           /\ again.receipts = last.pre.receipts

\* the change-sets replayed backward over a plain state: the last appended
\* entry first, each entry putting its prior value back (absent when it is
\* zero or no account)
RECURSIVE unwind_storage(_, _)
unwind_storage(storage, changeset) ==
    IF changeset = <<>> THEN storage
    ELSE LET e == changeset[Len(changeset)]
             cleared == {x \in storage : ~(x[1] = e[2] /\ x[2] = e[3])}
         IN unwind_storage(
                IF e[4] # 0 THEN cleared \cup {<<e[2], e[3], e[4]>>} ELSE cleared,
                SubSeq(changeset, 1, Len(changeset) - 1))

RECURSIVE unwind_accounts(_, _)
unwind_accounts(accounts, changeset) ==
    IF changeset = <<>> THEN accounts
    ELSE LET e == changeset[Len(changeset)]
         IN unwind_accounts([accounts EXCEPT ![e[2]] = e[3]],
                            SubSeq(changeset, 1, Len(changeset) - 1))

\* C4: after the flush of a range built on a store, replaying the persisted
\* account and storage change-sets backward over the resulting plain state
\* gives the plain account and storage state from before the range.
C4_FlushRoundTrip ==
    pc = "flushed" =>
        /\ unwind_accounts(db.accounts, db.account_changeset) = db0.accounts
        /\ unwind_storage(db.storage, db.storage_changeset) = db0.storage

C4_Witness ==
    /\ pc = "flushed"
    /\ len(agg) = 3
    /\ WasDestroyed(agg, 1)
    /\ \E e \in db0.storage : e[1] = 1
    /\ \E e \in db.storage : e[1] = 1 /\ e \notin db0.storage
    /\ unwind_storage(db.storage, db.storage_changeset) = db0.storage

\* C5: for a wiped (block, address) with persisted storage W, non-empty, and
\* revert slots R, the entries appended to StorageChangeSet have strictly
\* ascending slots, their slots are those of W and of R, and each carries R's
\* value when R has the slot and W's value otherwise.
C5_MergeCorrect ==
    (/\ last.op = "StateReverts::write_to_db"
     /\ last.arg.storage[1][1][2]
     /\ \E e \in db0.storage : e[1] = 1) =>
        LET W == {<<e[2], e[3]>> : e \in {x \in db0.storage : x[1] = 1}}
            revert == last.arg.storage[1][1][3]
            R == {revert[i] : i \in 1..Len(revert)}
            out == db.storage_changeset
        IN /\ \A i \in 1..Len(out) : out[i][1] = FirstBlock /\ out[i][2] = 1
           /\ \A i, j \in 1..Len(out) : i < j => out[i][3] < out[j][3]
           /\ {out[i][3] : i \in 1..Len(out)} = {w[1] : w \in W} \cup {r[1] : r \in R}
           /\ \A i \in 1..Len(out) :
                 IF \E r \in R : r[1] = out[i][3]
                 THEN <<out[i][3], out[i][4]>> \in R
                 ELSE <<out[i][3], out[i][4]>> \in W

C5_Witness ==
    /\ last.op = "StateReverts::write_to_db"
    /\ last.arg.storage[1][1][2]
    /\ {e \in db0.storage : e[1] = 1} = {<<1, 1, 1>>, <<1, 2, 2>>}
    /\ last.arg.storage[1][1][3] = <<<<2, 0>>, <<3, 1>>>>
    /\ db.storage_changeset =
          <<<<FirstBlock, 1, 1, 1>>, <<FirstBlock, 1, 2, 0>>, <<FirstBlock, 1, 3, 1>>>>

\* C6: after StateChange::write_to_db every (address, slot) the diff sets to
\* 0 has no entry in PlainStorageState, every one it sets to a non-zero value
\* has exactly one entry, holding that value, and no entry with value 0 is
\* inserted.
C6_ZeroWrite ==
    last.op = "StateChange::write_to_db" =>
        /\ \A i \in 1..Len(last.arg.storage) :
              LET address == last.arg.storage[i][1]
                  slots == last.arg.storage[i][2][2]
              IN \A j \in 1..Len(slots) :
                    {e \in db.storage : e[1] = address /\ e[2] = slots[j][1]}
                        = IF slots[j][2] = 0 THEN {}
                          ELSE {<<address, slots[j][1], slots[j][2]>>}
        /\ \A e \in db.storage \ db0.storage : e[3] # 0

C6_Witness ==
    /\ last.op = "StateChange::write_to_db"
    /\ last.arg.storage[1][2][2] = <<<<1, 0>>, <<2, 2>>>>
    /\ {<<1, 1, 1>>, <<1, 2, 1>>, <<1, 3, 2>>} \subseteq db0.storage
    /\ {e \in db.storage : e[1] = 1} = {<<1, 2, 2>>, <<1, 3, 2>>}

\* C7: detach_lower_part_at(block_number) with block_number >= last_block
\* returns None and leaves self unchanged.
C7_DetachAboveReturnsNone ==
    (last.op = "detach_lower_part_at" /\ last.arg >= last_block(last.pre)) =>
        /\ last.ret = None
        /\ agg = last.pre
        /\ pc = "live"

C7_Witness ==
    /\ last.op = "detach_lower_part_at"
    /\ last.arg = last_block(last.pre)
    /\ len(last.pre) = 2
    /\ last.pre.bundle.state # EmptyFn
    /\ last.ret = None

\* C8: detach_lower_part_at(block_number) with block_number < first_block
\* returns Some(empty aggregator), not None, and leaves self unchanged.
C8_DetachBelowReturnsEmpty ==
    (last.op = "detach_lower_part_at" /\ last.arg < last.pre.first_block) =>
        /\ last.ret # None
        /\ last.ret[1].receipts = <<>>
        /\ last.ret[1].bundle.state = EmptyFn
        /\ last.ret[1].bundle.reverts = <<>>
        /\ agg = last.pre
        /\ pc = "live"

C8_Witness ==
    /\ last.op = "detach_lower_part_at"
    /\ last.arg < last.pre.first_block
    /\ len(last.pre) = 2
    /\ last.pre.bundle.state # EmptyFn
    /\ last.ret = Some(DefaultBundleState)

\* C9: revert_to(block_number) with block_number < first_block changes
\* nothing: receipts, journal, deltas and first_block stay as they were.
C9_RevertBelowIsNoOp ==
    (last.op = "revert_to" /\ last.arg < last.pre.first_block) =>
        /\ agg = last.pre
        /\ pc = "live"

C9_Witness ==
    /\ last.op = "revert_to"
    /\ last.arg < last.pre.first_block
    /\ len(last.pre) = 2
    /\ last.pre.bundle.state # EmptyFn
    /\ agg = last.pre

\* C10: index_of(block_number) is None below first_block and from
\* first_block+len on, Some(block_number - first_block) in between, and leaves
\* the aggregator as it was; with first_block=100 and 3 blocks, 100 -> Some(0),
\* 102 -> Some(2), 99 -> None, 103 -> None.
C10_IndexOf ==
    last.op = "index_of" =>
        /\ last.ret =
              IF \/ last.arg < last.pre.first_block
                 \/ last.arg >= last.pre.first_block + Len(last.pre.receipts)
              THEN None
              ELSE Some(last.arg - last.pre.first_block)
        /\ agg = last.pre
        /\ (last.pre.first_block = 100 /\ Len(last.pre.receipts) = 3) =>
              /\ last.arg = 100 => last.ret = Some(0)
              /\ last.arg = 102 => last.ret = Some(2)
              /\ last.arg = 99 => last.ret = None
              /\ last.arg = 103 => last.ret = None

C10_Witness ==
    /\ last.op = "index_of"
    /\ last.pre.first_block = 100
    /\ Len(last.pre.receipts) = 3
    /\ last.arg = 102
    /\ last.ret = Some(2)

\* C11: extend(other) keeps self's receipts and first_block, appends other's
\* receipts after them in order, appends other's journal after self's and
\* lays other's deltas over self's, so that len grows by len(other); it does
\* so whatever other.first_block is, without failing
C11_ExtendAppends ==
    last.op = "extend" =>
        LET other == last.arg
            was == last.pre
        IN /\ pc = "live"
           /\ len(agg) = len(was) + len(other)
           /\ agg.first_block = was.first_block
           /\ SubSeq(agg.receipts, 1, len(was)) = was.receipts
           /\ SubSeq(agg.receipts, len(was) + 1, len(agg)) = other.receipts
           /\ agg.bundle.reverts = was.bundle.reverts \o other.bundle.reverts
           /\ DOMAIN agg.bundle.state =
                  DOMAIN was.bundle.state \cup DOMAIN other.bundle.state
           /\ \A a \in DOMAIN other.bundle.state :
                  /\ agg.bundle.state[a].info = other.bundle.state[a].info
                  /\ \A slot \in DOMAIN other.bundle.state[a].storage :
                         agg.bundle.state[a].storage[slot].present =
                             other.bundle.state[a].storage[slot].present
           /\ \A a \in DOMAIN was.bundle.state \ DOMAIN other.bundle.state :
                  agg.bundle.state[a] = was.bundle.state[a]

\* an other that starts away from self's next block, both holding receipts
C11_Witness ==
    /\ last.op = "extend"
    /\ last.arg.first_block # last_block(last.pre)
    /\ flatten(last.pre.receipts) # <<>>
    /\ flatten(last.arg.receipts) # <<>>
    /\ len(agg) = len(last.pre) + 1

\* the number of receipts held by the first n blocks
RECURSIVE ReceiptCount(_, _)
ReceiptCount(receipts, n) ==
    IF n = 0 THEN 0 ELSE ReceiptCount(receipts, n - 1) + Len(receipts[n])

\* C12: the flush leaves the Receipts entries it found as they were and
\* appends the range's receipts after them: the first at the largest
\* existing key plus one (0 on an empty table), each next one at the
\* previous index plus one, in block order and then in-block order, a block
\* without receipts taking no index
C12_ReceiptIndices ==
    (pc = "flushed" /\ last.op = "write_to_db") =>
        LET old == db0.receipts
            keys == {old[i][1] : i \in 1..Len(old)}
            base == IF keys = {} THEN 0
                    ELSE (CHOOSE m \in keys : \A x \in keys : x <= m) + 1
        IN /\ SubSeq(db.receipts, 1, Len(old)) = old
           /\ Len(db.receipts) = Len(old) + ReceiptCount(agg.receipts, len(agg))
           /\ \A b \in 1..len(agg) : \A j \in 1..Len(agg.receipts[b]) :
                  LET before == ReceiptCount(agg.receipts, b - 1)
                  IN db.receipts[Len(old) + before + j] =
                         <<base + before + (j - 1), agg.receipts[b][j]>>

\* a table whose largest key is not its count minus one, and a range with a
\* block of two receipts, then one of none, then one with receipts
C12_Witness ==
    /\ pc = "flushed"
    /\ last.op = "write_to_db"
    /\ db0.receipts # <<>>
    /\ db0.receipts[Len(db0.receipts)][1] # Len(db0.receipts) - 1
    /\ len(agg) = 3
    /\ Len(agg.receipts[1]) = 2
    /\ agg.receipts[2] = <<>>
    /\ agg.receipts[3] # <<>>

\* C13: when the revert of (block, address) is wiped, every persisted
\* (slot, value) of the address is taken into the merge, so that each
\* persisted slot is in the change-set, with its persisted value unless the
\* revert names the slot, and every entry of the address is deleted from
\* PlainStorageState, the other addresses' entries staying; when it is not
\* wiped, PlainStorageState is neither modified nor asked to delete, and the
\* change-set is the revert's pairs in their order
C13_WipeCapturesAndDeletes ==
    last.op = "StateReverts::write_to_db" =>
        LET wipe_storage == last.arg.storage[1][1][2]
            revert == last.arg.storage[1][1][3]
            persisted == {x \in db0.storage : x[1] = 1}
            out == db.storage_changeset
        IN IF wipe_storage
           THEN /\ db.storage = db0.storage \ persisted
                /\ \A e \in persisted :
                       \E i \in 1..Len(out) :
                          /\ out[i][3] = e[2]
                          /\ (\A j \in 1..Len(revert) : revert[j][1] # e[2])
                                 => out[i][4] = e[3]
           ELSE /\ db.storage = db0.storage
                /\ \A i \in 1..Len(db.log) :
                       db.log[i][1] # "delete_current_duplicates"
                /\ out = [i \in 1..Len(revert) |->
                             <<FirstBlock, 1, revert[i][1], revert[i][2]>>]

\* a wiped revert of an address with two persisted slots, beside another
\* address's entry
C13_Witness ==
    /\ last.op = "StateReverts::write_to_db"
    /\ last.arg.storage[1][1][2]
    /\ last.arg.storage[1][1][3] # <<>>
    /\ db0.storage = {<<1, 1, 1>>, <<1, 3, 2>>, <<2, 2, 1>>}
    /\ db.storage = {<<2, 2, 1>>}

\* the addresses delete_current was issued for on PlainAccountState
AccountDeletes(log) ==
    {log[i][3][1] : i \in {j \in 1..Len(log) :
                              /\ log[j][1] = "delete_current"
                              /\ log[j][2] = "PlainAccountState"}}

\* C14: for each (address, value) of the diff's accounts, a present value is
\* what PlainAccountState holds for the address afterwards; an absent value
\* leaves no entry, and a delete is issued for the address exactly when an
\* entry existed; the accounts the diff does not name are as they were and
\* no delete is issued for them
C14_AccountWrite ==
    last.op = "StateChange::write_to_db" =>
        LET changes == last.arg.accounts
            named == {changes[i][1] : i \in 1..Len(changes)}
            deletes == AccountDeletes(db.log)
        IN /\ \A i \in 1..Len(changes) :
                  LET address == changes[i][1]
                      account == changes[i][2]
                  IN IF account # NoAccount
                     THEN /\ db.accounts[address] = account
                          /\ address \notin deletes
                     ELSE /\ db.accounts[address] = NoAccount
                          /\ address \in deletes <=>
                                 db0.accounts[address] # NoAccount
           /\ \A address \in Addresses \ named :
                  /\ db.accounts[address] = db0.accounts[address]
                  /\ address \notin deletes

\* an absent value for an address without an entry, beside a present value
C14_Witness ==
    /\ last.op = "StateChange::write_to_db"
    /\ last.arg.accounts = <<<<1, NoAccount>>, <<2, "i1">>>>
    /\ db0.accounts[1] = NoAccount
    /\ db0.accounts[2] = "i2"
    /\ db.accounts[2] = "i1"
    /\ AccountDeletes(db.log) = {}

\* x is an initial part of y
IsPrefix(x, y) == Len(x) <= Len(y) /\ x = SubSeq(y, 1, Len(x))

\* C15: when a call on the store fails during the flush, the flush returns
\* the error; the failing call is the last call it issues, the calls up to
\* it are those the flush issues on a store that does not fail, each once,
\* and the tables hold what was written before it; without a failure the
\* flush returns Ok
C15_ErrorStopsFlush ==
    (pc = "flushed" /\ last.op = "write_to_db") =>
        IF db.fail_at = 0 THEN last.ret = <<"Ok">> /\ ~db.err
        ELSE LET clean == write_to_db(agg, db0, last.arg)
             IN /\ last.ret = <<"Err">>
                /\ Len(db.log) = db.fail_at
                /\ IsPrefix(db.log, clean.log)
                /\ IsPrefix(db.receipts, clean.receipts)
                /\ IsPrefix(db.storage_changeset, clean.storage_changeset)
                /\ IsPrefix(db.account_changeset, clean.account_changeset)

\* the delete of a wiped storage fails: the storage stays, the change-set is
\* not written and the calls that would follow are not issued
C15_Witness ==
    /\ pc = "flushed"
    /\ last.op = "write_to_db"
    /\ last.ret = <<"Err">>
    /\ db.log[Len(db.log)][1] = "delete_current_duplicates"
    /\ db.storage = db0.storage
    /\ db.storage_changeset = <<>>
    /\ Len(db.log) < FlushCalls(agg, db0, last.arg)

\* the journal has one entry per block and the receipts one list per block
LengthsAgree(self) ==
    /\ Len(self.bundle.reverts) = Len(self.receipts)
    /\ Len(self.receipts) = last_block(self) - first_block(self)

\* C16: in every state reached from the empty aggregator by extend,
\* revert_to and detach_lower_part_at, the aggregator and every fragment
\* detach_lower_part_at returns have as many journal entries as receipt
\* lists, which is last_block - first_block, and detach_lower_part_at never
\* panics on a missing detachment
C16_LengthsAgree ==
    /\ LengthsAgree(agg)
    /\ (last.op = "detach_lower_part_at" /\ last.ret # None)
           => LengthsAgree(last.ret[1])
    /\ pc # "panicked"

\* a range of three blocks detached into a fragment and a rest, both with
\* blocks
C16_Witness ==
    /\ last.op = "detach_lower_part_at"
    /\ len(last.pre) = 3
    /\ last.ret # None
    /\ len(last.ret[1]) >= 1
    /\ len(agg) >= 1
    /\ Len(agg.bundle.reverts) = len(agg)

\* C17: for a block number out of the range, logs, block_logs_bloom and
\* receipts_root_slow return None and receipts_by_block returns the empty
\* slice, no query ever indexing the receipts out of bounds; for a block of
\* the range they return a value, and logs of a block without receipts is
\* Some of the empty sequence
C17_RangeMisses ==
    /\ pc # "panicked"
    /\ last.op \in {"logs", "block_logs_bloom", "receipts_root_slow"} =>
           (last.ret = None <=> ~InRange(agg, last.arg))
    /\ (last.op = "receipts_by_block" /\ ~InRange(agg, last.arg)) =>
           last.ret = <<>>
    /\ (last.op = "receipts_by_block" /\ InRange(agg, last.arg)) =>
           last.ret = agg.receipts[(last.arg - agg.first_block) + 1]
    /\ (/\ last.op = "logs"
        /\ InRange(agg, last.arg)
        /\ agg.receipts[(last.arg - agg.first_block) + 1] = <<>>) =>
           last.ret = Some(<<>>)

\* logs asked for the block just past a range of two blocks
C17_Witness ==
    /\ last.op = "logs"
    /\ len(agg) = 2
    /\ last.arg = last_block(agg)
    /\ flatten(agg.receipts) # <<>>
    /\ last.ret = None

\* the keys of a sequence of <<key, value>> entries ascend strictly
AscendingKeys(entries) ==
    \A i, j \in 1..Len(entries) : i < j => entries[i][1] < entries[j][1]

\* C18: the hashed state has, for every touched address, one account entry
\* under the hash of the address: the account when its info is present, a
\* cleared mark when it is not; one storage group under the same hash,
\* flagged wiped exactly when the account's status says it was destroyed,
\* holding for every touched slot one entry under the hash of the slot key:
\* a zero-valued mark exactly when the present value is 0, the present
\* value otherwise; nothing else is in it, accounts, storage groups and
\* slots are sorted by hashed key, and the aggregator is not changed
C18_HashedState ==
    last.op = "hash_state_slow" =>
        LET hashed == last.ret
            state == agg.bundle.state
            touched == DOMAIN state
            accountsAt(h) == {i \in 1..Len(hashed.accounts) :
                                 hashed.accounts[i][1] = h}
            storagesAt(h) == {i \in 1..Len(hashed.storages) :
                                 hashed.storages[i][1] = h}
        IN /\ agg = last.pre
           /\ \A a \in touched :
                  LET h == keccak256(a)
                  IN /\ IF state[a].info # NoAccount
                        THEN /\ \E i \in accountsAt(h) :
                                   /\ accountsAt(h) = {i}
                                   /\ hashed.accounts[i][2] = state[a].info
                             /\ h \notin hashed.cleared_accounts
                        ELSE /\ accountsAt(h) = {}
                             /\ h \in hashed.cleared_accounts
                     /\ \E i \in storagesAt(h) :
                           LET group == hashed.storages[i][2]
                               slots == group.non_zero_valued_storage
                               slotsAt(hk) == {n \in 1..Len(slots) : slots[n][1] = hk}
                           IN /\ storagesAt(h) = {i}
                              /\ group.wiped <=> state[a].destroyed
                              /\ \A key \in DOMAIN state[a].storage :
                                     LET hk == keccak256(key)
                                         value == state[a].storage[key].present
                                     IN IF value = 0
                                        THEN /\ hk \in group.zero_valued_slots
                                             /\ slotsAt(hk) = {}
                                        ELSE /\ hk \notin group.zero_valued_slots
                                             /\ \E n \in slotsAt(hk) :
                                                   /\ slotsAt(hk) = {n}
                                                   /\ slots[n][2] = value
                              /\ Len(slots) + Cardinality(group.zero_valued_slots)
                                     = Cardinality(DOMAIN state[a].storage)
                              /\ AscendingKeys(slots)
           /\ Len(hashed.accounts) + Cardinality(hashed.cleared_accounts)
                  = Cardinality(touched)
           /\ Len(hashed.storages) = Cardinality(touched)
           /\ AscendingKeys(hashed.accounts)
           /\ AscendingKeys(hashed.storages)

\* two accounts whose hashes are in the opposite order of their addresses,
\* one of them with two slots whose hashes are too
C18_Witness ==
    /\ last.op = "hash_state_slow"
    /\ DOMAIN agg.bundle.state = {1, 2}
    /\ DOMAIN agg.bundle.state[1].storage = {1, 2}
    /\ Len(last.ret.accounts) = 2
    /\ last.ret.accounts[1][1] = keccak256(2)
    /\ \E i \in 1..2 : Len(last.ret.storages[i][2].non_zero_valued_storage) = 2

\* the addresses with a wiped revert in the journal
WipedInRange(self) ==
    {a \in Addresses :
        \E i \in 1..Len(self.bundle.reverts) :
           a \in DOMAIN self.bundle.reverts[i] /\ self.bundle.reverts[i][a].wipe}

\* C19: in a flush every delete of a wiped storage is issued before every
\* call of the final state's storage write, which deletes and upserts single
\* slots only; so for an address wiped in the range the PlainStorageState
\* entries after the flush are the non-zero slots of the net diff: no
\* earlier slot outside the diff survives and no written slot is lost
C19_WipeBeforeStorageWrite ==
    (pc = "flushed" /\ last.op = "write_to_db") =>
        LET log == db.log
            wipes == {i \in 1..Len(log) : log[i][1] = "delete_current_duplicates"}
            writes == {i \in 1..Len(log) :
                          /\ log[i][2] = "PlainStorageState"
                          /\ log[i][1] \in {"seek_by_key_subkey", "delete_current",
                                            "upsert"}}
        IN /\ \A i \in wipes : \A j \in writes : i < j
           /\ \A a \in WipedInRange(agg) :
                  {e \in db.storage : e[1] = a} =
                      {<<a, slot, agg.bundle.state[a].storage[slot].present>> :
                          slot \in {x \in DOMAIN agg.bundle.state[a].storage :
                                       agg.bundle.state[a].storage[x].present # 0}}

\* an address wiped in the range that had a slot the diff does not name and
\* that ends with a newly written slot
C19_Witness ==
    /\ pc = "flushed"
    /\ last.op = "write_to_db"
    /\ 1 \in WipedInRange(agg)
    /\ \E e \in db0.storage :
          e[1] = 1 /\ e[2] \notin DOMAIN agg.bundle.state[1].storage
    /\ \E e \in db.storage : e[1] = 1
    /\ \E i \in 1..Len(db.log) : db.log[i][1] = "delete_current_duplicates"

\* C20: revert_to(k) of an in-range block k is idempotent: a second
\* revert_to(k) changes nothing; and revert_to of the last block of the
\* range, first_block + len - 1, leaves receipts, journal and deltas as
\* they were
C20_RevertToIdempotent ==
    RevertedInRange =>
        /\ revert_to(agg, last.arg) = agg
        /\ last.arg = last.pre.first_block + len(last.pre) - 1 => agg = last.pre

\* C21: when an aggregator reached by extend, revert_to and
\* detach_lower_part_at, self or a detached fragment, is flushed, its i-th
\* journal entry (i from 0) is the one produced by the execution of block
\* first_block + i, and it is written under that number: AccountChangeSet
\* holds, under the block's number, the prior account of each address the
\* block's entry has one for, once, and nothing else; every StorageChangeSet
\* entry is under (number, address) of a block whose entry reverts or wipes
\* the address's storage, each reverted slot being there with its prior
\* value; and both tables are written in ascending block order
C21_BlockNumberKeying ==
    (pc = "flushed" /\ last.op \in {"write_to_db", "fragment.write_to_db"}) =>
        LET flushed == last.pre
            executed == last.prehist
            blocks == 1..len(flushed)
            entry(i) == executed[i].bundle.reverts[1]
            number(i) == executed[i].first_block
            accounts == db.account_changeset
            storage == db.storage_changeset
        IN /\ Len(executed) = len(flushed)
           /\ Len(flushed.bundle.reverts) = len(flushed)
           /\ \A i \in blocks :
                  /\ flushed.bundle.reverts[i] = entry(i)
                  /\ number(i) = flushed.first_block + (i - 1)
           /\ \A i \in blocks : \A a \in DOMAIN entry(i) :
                  LET at == {n \in 1..Len(accounts) :
                                accounts[n][1] = number(i) /\ accounts[n][2] = a}
                  IN IF entry(i)[a].account[1] = "nothing" THEN at = {}
                     ELSE \E n \in at :
                             /\ at = {n}
                             /\ accounts[n][3] =
                                    IF entry(i)[a].account[1] = "delete"
                                    THEN NoAccount
                                    ELSE entry(i)[a].account[2]
           /\ \A n \in 1..Len(accounts) :
                  \E i \in blocks :
                     accounts[n][1] = number(i) /\ accounts[n][2] \in DOMAIN entry(i)
           /\ \A i \in blocks : \A a \in DOMAIN entry(i) :
                  \A slot \in DOMAIN entry(i)[a].storage :
                     \E n \in 1..Len(storage) :
                        storage[n] = <<number(i), a, slot, entry(i)[a].storage[slot]>>
           /\ \A n \in 1..Len(storage) :
                  \E i \in blocks :
                     /\ storage[n][1] = number(i)
                     /\ storage[n][2] \in DOMAIN entry(i)
                     /\ LET reverted == entry(i)[storage[n][2]]
                        IN IF storage[n][3] \in DOMAIN reverted.storage
                           THEN storage[n][4] = reverted.storage[storage[n][3]]
                           ELSE reverted.wipe
           /\ \A m, n \in 1..Len(accounts) : m < n => accounts[m][1] <= accounts[n][1]
           /\ \A m, n \in 1..Len(storage) : m < n => storage[m][1] <= storage[n][1]

\* a detached fragment of two blocks flushed into both change-sets
C21_Witness ==
    /\ pc = "flushed"
    /\ last.op = "fragment.write_to_db"
    /\ len(last.pre) = 2
    /\ \E n \in 1..Len(db.account_changeset) :
          db.account_changeset[n][1] = last.pre.first_block + 1
    /\ \E n \in 1..Len(db.storage_changeset) :
          db.storage_changeset[n][1] = last.pre.first_block

\* the (address, slot) pairs a net diff writes
NamedSlots(change) ==
    UNION {{<<change.storage[i][1], change.storage[i][2][2][j][1]>> :
               j \in 1..Len(change.storage[i][2][2])} :
           i \in 1..Len(change.storage)}

\* C22: StateChange::write_to_db leaves every PlainStorageState entry of an
\* (address, slot) its diff does not name as it was, adds none for such a
\* pair, and issues delete_current for named pairs only, also when a named
\* slot has no entry and the seek lands on a greater slot of the address
C22_SlotLocal ==
    last.op = "StateChange::write_to_db" =>
        LET named == NamedSlots(last.arg)
            log == db.log
        IN /\ {e \in db.storage : <<e[1], e[2]>> \notin named} =
                  {e \in db0.storage : <<e[1], e[2]>> \notin named}
           /\ \A i \in 1..Len(log) :
                  (log[i][1] = "delete_current" /\ log[i][2] = "PlainStorageState")
                     => log[i][3] \in named

\* slot 2 is written where slots 1 and 3 are persisted: the seek lands on
\* slot 3, which stays, as does the other address's entry
C22_Witness ==
    /\ last.op = "StateChange::write_to_db"
    /\ db0.storage = {<<1, 1, 1>>, <<1, 3, 2>>, <<2, 2, 1>>}
    /\ last.arg.storage = <<<<1, <<FALSE, <<<<2, 0>>>>>>>>>>
    /\ db.storage = db0.storage

====
